---------------------------- MODULE Spec2Model ----------------------------
(***************************************************************************)
(* surface-sampler.py: the pipeline of the __main__ block, one action per  *)
(* statement.  A mesh is the symbolic value the library calls built: the   *)
(* calls applied to it, with their arguments, and for the expanded shell   *)
(* the number of unit normals every point was displaced by.                *)
(***************************************************************************)
EXTENDS Integers, Sequences, FiniteSets, TLC

(* ------------------------------ bounds -------------------------------- *)

\* distances are the rationals n / Den
Den == 2
\* |distance| <= MaxDist
MaxDist == 2
\* the points argument ranges over 1..MaxPoints
MaxPoints == 1
\* splitSurfaces returns at most MaxComponents sub-meshes
MaxComponents == 2
\* each of a volume in 1..MaxVolume
MaxVolume == 2

(* ------------------------- program constants -------------------------- *)

\* line 46: mesh.smooth(max_iter=5, preserve_ridges=False, verbose=True)
InitialSmooth == [op |-> "smooth", max_iter |-> 5, preserve_ridges |-> FALSE]
\* faulty variant of RefineRounds: range(4)
RefineRoundsFour == 5 - 1
\* line 48: for i in range(5)
RefineRounds == 5
\* line 50: mesh.coarse_dense(rate=2, numiter=3)
CoarseDense == [op |-> "coarse_dense", rate |-> <<2, 1>>, numiter |-> 3]
\* line 52: mesh.coarse_flat(rate=0.1, numiter=3), the rate as <<1, 10>>
CoarseFlat == [op |-> "coarse_flat", rate |-> <<1, 10>>, numiter |-> 3]
\* line 53: mesh.smooth(max_iter=3, preserve_ridges=True, verbose=False)
RidgeSmooth == [op |-> "smooth", max_iter |-> 3, preserve_ridges |-> TRUE]
\* line 62: faceID.data().marker = 23
FaceMarker == 23
\* line 67: gInfo.marker = -1
RootMarker == 0 - 1
\* line 75: decimate(0.97, volume_preservation=True), the ratio as <<97, 100>>
Decimation == [reduction |-> <<97, 100>>, volume_preservation |-> TRUE]
\* line 79: range(1, ...)
RangeStart == 1
\* faulty variant of ScaleFactor: SetScaleFactor(1)
ScaleFactorOne == 2 - 1
\* line 87: warp.SetScaleFactor(2)
ScaleFactor == 2
\* line 93: clus.subdivide(3)
Subdivisions == 3

(* ------------------------------ values -------------------------------- *)

\* a Python name not bound to a mesh yet
None == [lib |-> "none"]

Max(a, b) == IF a >= b THEN a ELSE b

\* argparse type=float: the finite values n / Den and the three non-finite
\* floats that float() parses ("inf", "-inf", "nan")
Finite(n) == [kind |-> "finite", num |-> n]
Distances ==
  {Finite(n) : n \in (0 - MaxDist * Den) .. (MaxDist * Den)}
    \cup {[kind |-> k, num |-> 0] : k \in {"inf", "-inf", "nan"}}

\* argparse type=int
Points == 1 .. MaxPoints

IsFinite(d) == d.kind = "finite"

\* faulty variants of PyInt: rounding up, and rounding to the nearest integer
PyIntCeiling(d) ==
  IF d.num >= 0 THEN (d.num + Den - 1) \div Den ELSE 0 - ((0 - d.num) \div Den)
PyIntRound(d) == (2 * d.num + Den) \div (2 * Den)

\* int(x) of a finite float x = num / Den: truncation toward zero
PyInt(d) ==
  IF d.num >= 0 THEN d.num \div Den ELSE 0 - ((0 - d.num) \div Den)

\* the values of range(a, b), in order
PyRange(a, b) == [k \in 1 .. Max(0, b - a) |-> a + k - 1]

\* faulty variants of ExpansionRange: range(1, int(d)) and range(0, int(d)+1)
ExpansionRangeShort(d) == PyRange(RangeStart, PyInt(d))
ExpansionRangeFromZero(d) == PyRange(0, PyInt(d) + 1)

\* line 79: range(1, int(args.distance)+1)
ExpansionRange(d) == PyRange(RangeStart, PyInt(d) + 1)

\* the lists splitSurfaces may return: the volumes of the sub-meshes in the
\* order the library reports them
RECURSIVE SeqsUpTo(_, _)
SeqsUpTo(S, n) ==
  IF n = 0 THEN {<<>>}
  ELSE LET shorter == SeqsUpTo(S, n - 1)
       IN  shorter \cup {Append(s, x) : s \in {t \in shorter : Len(t) = n - 1}, x \in S}

ComponentLists == SeqsUpTo(1 .. MaxVolume, MaxComponents)

\* a sub-mesh as splitSurfaces returns it
SubMesh(vol, idx) ==
  [lib |-> "pygamer", volume |-> vol, index |-> idx, selected |-> FALSE,
   ops |-> <<>>, marker |-> 0, ishole |-> FALSE, root_marker |-> 0]

(* ------------------------------- state -------------------------------- *)

VARIABLES
  pc,             \* the statement to execute next
  args,           \* parse_command_line(): [distance, points]
  mesh,           \* the Python name mesh
  orientation,    \* components, orientable, manifold
  meshes,         \* the list splitSurfaces returned
  i,              \* the loop variable i (0 - 1: not bound yet)
  iter,           \* what is left of the range of the running for loop
  shell,          \* the Python name shell
  expanded_mesh,  \* the Python name expanded_mesh
  clus,           \* the pyacvd.Clustering object
  uniform,        \* the Python name uniform
  plotter,        \* the viewer window: "none", "built", "open", "closed"
  files,          \* per output file: the number of writes and the content
  trace,          \* the library calls and prints made so far, in order
  error           \* the uncaught exception, "" when none

vars == <<pc, args, mesh, orientation, meshes, i, iter, shell, expanded_mesh,
          clus, uniform, plotter, files, trace, error>>

Call(name) == [op |-> name]
Printed(text) == [op |-> "print", text |-> text]

Init ==
  /\ pc = "readPDB_gauss"
  /\ args \in [distance : Distances, points : Points]
  /\ mesh = None
  /\ orientation = <<0, FALSE, FALSE>>
  /\ meshes = <<>>
  /\ i = 0 - 1
  /\ iter = <<>>
  /\ shell = None
  /\ expanded_mesh = None
  /\ clus = None
  /\ uniform = None
  /\ plotter = "none"
  /\ files = [f \in {"obj", "pdb"} |-> [writes |-> 0, content |-> None]]
  /\ trace = <<>>
  /\ error = ""

(* --------------------- surface construction (28-41) -------------------- *)

\* line 28: the Gaussian surface of the structure, of some list of components
ReadPDB ==
  /\ pc = "readPDB_gauss"
  /\ \E comps \in ComponentLists :
       mesh' = [lib |-> "pygamer", components |-> comps, corrected |-> FALSE]
  /\ trace' = Append(trace, Call("readPDB_gauss"))
  /\ pc' = "compute_orientation"
  /\ UNCHANGED <<args, orientation, meshes, i, iter, shell, expanded_mesh,
                 clus, uniform, plotter, files, error>>

\* line 31: the diagnostics; nothing branches on them
ComputeOrientation ==
  /\ pc = "compute_orientation"
  /\ \E orientable \in BOOLEAN, manifold \in BOOLEAN :
       orientation' = <<Len(mesh.components), orientable, manifold>>
  /\ trace' = Append(trace, Call("compute_orientation"))
  /\ pc' = "correctNormals"
  /\ UNCHANGED <<args, mesh, meshes, i, iter, shell, expanded_mesh, clus,
                 uniform, plotter, files, error>>

\* line 32
CorrectNormals ==
  /\ pc = "correctNormals"
  /\ mesh' = [mesh EXCEPT !.corrected = TRUE]
  /\ trace' = Append(trace, Call("correctNormals"))
  /\ pc' = "print_orientation"
  /\ UNCHANGED <<args, orientation, meshes, i, iter, shell, expanded_mesh,
                 clus, uniform, plotter, files, error>>

\* lines 33-35
PrintOrientation ==
  /\ pc = "print_orientation"
  /\ trace' = Append(trace, Printed(<<"The mesh has">> \o orientation))
  /\ pc' = "splitSurfaces"
  /\ UNCHANGED <<args, mesh, orientation, meshes, i, iter, shell,
                 expanded_mesh, clus, uniform, plotter, files, error>>

\* line 37
SplitSurfaces ==
  /\ pc = "splitSurfaces"
  /\ meshes' = [k \in 1 .. Len(mesh.components) |->
                  SubMesh(mesh.components[k], k - 1)]
  /\ trace' = Append(trace, Call("splitSurfaces"))
  /\ pc' = "print_volumes"
  /\ UNCHANGED <<args, mesh, orientation, i, iter, shell, expanded_mesh,
                 clus, uniform, plotter, files, error>>

\* lines 38-39: one line per sub-mesh; i is left at the last index
PrintVolumes ==
  /\ pc = "print_volumes"
  /\ trace' = trace \o [k \in 1 .. Len(meshes) |->
                          Printed(<<"Mesh", k - 1, meshes[k].volume>>)]
  /\ i' = IF Len(meshes) = 0 THEN i ELSE Len(meshes) - 1
  /\ pc' = "select_first"
  /\ UNCHANGED <<args, mesh, orientation, meshes, iter, shell, expanded_mesh,
                 clus, uniform, plotter, files, error>>

\* line 41: mesh = meshes[0]; IndexError on an empty list
SelectedIndex == 0

\* faulty variant of SelectFirst: an empty list is tolerated, the run goes on with an
\* empty mesh
SelectFirstUnchecked ==
  /\ pc = "select_first"
  /\ mesh' = IF SelectedIndex < Len(meshes) THEN meshes[SelectedIndex + 1]
             ELSE SubMesh(0, 0)
  /\ pc' = "select_vertices"
  /\ UNCHANGED <<args, orientation, meshes, i, iter, shell, expanded_mesh,
                 clus, uniform, plotter, files, trace, error>>

SelectFirst ==
  /\ pc = "select_first"
  /\ IF SelectedIndex < Len(meshes)
       THEN /\ mesh' = meshes[SelectedIndex + 1]
            /\ pc' = "select_vertices"
            /\ error' = error
       ELSE /\ mesh' = mesh
            /\ pc' = "crashed"
            /\ error' = "IndexError"
  /\ UNCHANGED <<args, orientation, meshes, i, iter, shell, expanded_mesh,
                 clus, uniform, plotter, files, trace>>


(* ------------------------- refinement (43-54) -------------------------- *)

\* lines 43-44
SelectVertices ==
  /\ pc = "select_vertices"
  /\ mesh' = [mesh EXCEPT !.selected = TRUE]
  /\ trace' = Append(trace, Call("vertexIDs"))
  /\ pc' = "smooth"
  /\ UNCHANGED <<args, orientation, meshes, i, iter, shell, expanded_mesh,
                 clus, uniform, plotter, files, error>>

\* a pygamer call that edits the mesh in place
Applied(m, call) == [m EXCEPT !.ops = Append(@, call)]

\* line 46
Smooth ==
  /\ pc = "smooth"
  /\ mesh' = Applied(mesh, InitialSmooth)
  /\ trace' = Append(trace, InitialSmooth)
  /\ pc' = "refine_range"
  /\ UNCHANGED <<args, orientation, meshes, i, iter, shell, expanded_mesh,
                 clus, uniform, plotter, files, error>>

\* line 48: range(5) is evaluated once
RefineRange ==
  /\ pc = "refine_range"
  /\ iter' = PyRange(0, RefineRounds)
  /\ pc' = "refine_next"
  /\ UNCHANGED <<args, mesh, orientation, meshes, i, shell, expanded_mesh,
                 clus, uniform, plotter, files, trace, error>>

\* line 48: the next value of the range, or the end of the loop
RefineNext ==
  /\ pc = "refine_next"
  /\ IF iter = <<>>
       THEN /\ pc' = "mark_faces"
            /\ UNCHANGED <<i, iter>>
       ELSE /\ i' = Head(iter)
            /\ iter' = Tail(iter)
            /\ pc' = "coarse_dense"
  /\ UNCHANGED <<args, mesh, orientation, meshes, shell, expanded_mesh, clus,
                 uniform, plotter, files, trace, error>>

\* line 50
CoarsenDense ==
  /\ pc = "coarse_dense"
  /\ mesh' = Applied(mesh, CoarseDense)
  /\ trace' = Append(trace, CoarseDense)
  /\ pc' = "coarse_flat"
  /\ UNCHANGED <<args, orientation, meshes, i, iter, shell, expanded_mesh,
                 clus, uniform, plotter, files, error>>

\* line 52
CoarsenFlat ==
  /\ pc = "coarse_flat"
  /\ mesh' = Applied(mesh, CoarseFlat)
  /\ trace' = Append(trace, CoarseFlat)
  /\ pc' = "smooth_ridges"
  /\ UNCHANGED <<args, orientation, meshes, i, iter, shell, expanded_mesh,
                 clus, uniform, plotter, files, error>>

\* line 53
SmoothRidges ==
  /\ pc = "smooth_ridges"
  /\ mesh' = Applied(mesh, RidgeSmooth)
  /\ trace' = Append(trace, RidgeSmooth)
  /\ pc' = "print_iteration"
  /\ UNCHANGED <<args, orientation, meshes, i, iter, shell, expanded_mesh,
                 clus, uniform, plotter, files, error>>

\* line 54: the statistics of the round
Report(round) == Printed(<<"Iteration", round>>)

PrintIteration ==
  /\ pc = "print_iteration"
  /\ trace' = Append(trace, Report(i + 1))
  /\ pc' = "refine_next"
  /\ UNCHANGED <<args, mesh, orientation, meshes, i, iter, shell,
                 expanded_mesh, clus, uniform, plotter, files, error>>

(* ---------------------- marking and export (61-71) --------------------- *)

\* lines 61-62
MarkFaces ==
  /\ pc = "mark_faces"
  /\ mesh' = [mesh EXCEPT !.marker = FaceMarker]
  /\ trace' = Append(trace, Call("faceIDs"))
  /\ pc' = "root"
  /\ UNCHANGED <<args, orientation, meshes, i, iter, shell, expanded_mesh,
                 clus, uniform, plotter, files, error>>

\* lines 65-67
SetRoot ==
  /\ pc = "root"
  /\ mesh' = [mesh EXCEPT !.ishole = TRUE, !.root_marker = RootMarker]
  /\ trace' = Append(trace, Call("getRoot"))
  /\ pc' = "writeOBJ"
  /\ UNCHANGED <<args, orientation, meshes, i, iter, shell, expanded_mesh,
                 clus, uniform, plotter, files, error>>

\* what an OBJ file keeps of a mesh: the geometry, none of the attributes
ObjOf(m) == [volume |-> m.volume, index |-> m.index, ops |-> m.ops]

\* one write of a file: the earlier content is replaced
Written(fs, name, content) ==
  [fs EXCEPT ![name] = [writes |-> @.writes + 1, content |-> content]]

\* lines 69-71
WriteOBJ ==
  /\ pc = "writeOBJ"
  /\ files' = Written(files, "obj", ObjOf(mesh))
  /\ trace' = Append(trace, Call("writeOBJ"))
  /\ pc' = "pv_read"
  /\ UNCHANGED <<args, mesh, orientation, meshes, i, iter, shell,
                 expanded_mesh, clus, uniform, plotter, error>>

(* ------------------- re-import and decimation (74-76) ------------------ *)

\* a pyvista surface: the geometry it was built from, the decimation applied,
\* the number of unit normals each point was moved by, and the state of its
\* point normals ("none", "fresh": of the current points, "stale")
PolyData(geom) ==
  [lib |-> "pyvista", geom |-> geom, decimation |-> None, offset |-> 0,
   normals |-> "none", surface |-> FALSE]

\* decimate(0.97, volume_preservation=True)
Decimate(m) == [m EXCEPT !.decimation = Decimation]

\* extract_surface(): the same points, as a surface
ExtractSurface(m) == [m EXCEPT !.surface = TRUE]

\* line 74
PvRead ==
  /\ pc = "pv_read"
  /\ mesh' = PolyData(files["obj"].content)
  /\ trace' = Append(trace, Call("read"))
  /\ pc' = "decimate"
  /\ UNCHANGED <<args, orientation, meshes, i, iter, shell, expanded_mesh,
                 clus, uniform, plotter, files, error>>

\* line 75
DecimateShell ==
  /\ pc = "decimate"
  /\ shell' = ExtractSurface(Decimate(mesh))
  /\ trace' = Append(trace, Call("decimate"))
  /\ pc' = "print_decimation"
  /\ UNCHANGED <<args, mesh, orientation, meshes, i, iter, expanded_mesh,
                 clus, uniform, plotter, files, error>>

\* line 76
PrintDecimation ==
  /\ pc = "print_decimation"
  /\ trace' = Append(trace, Printed(<<"Decimation">>))
  /\ pc' = "expand_range"
  /\ UNCHANGED <<args, mesh, orientation, meshes, i, iter, shell,
                 expanded_mesh, clus, uniform, plotter, files, error>>

(* ------------------------ expansion (79-89) ---------------------------- *)

\* int() of a float that is not finite raises
IntError(d) == IF d.kind = "nan" THEN "ValueError" ELSE "OverflowError"

\* line 79: range(1, int(args.distance)+1) is evaluated once
ExpandRange ==
  /\ pc = "expand_range"
  /\ IF IsFinite(args.distance)
       THEN /\ iter' = ExpansionRange(args.distance)
            /\ pc' = "expand_next"
            /\ error' = error
       ELSE /\ iter' = iter
            /\ pc' = "crashed"
            /\ error' = IntError(args.distance)
  /\ UNCHANGED <<args, mesh, orientation, meshes, i, shell, expanded_mesh,
                 clus, uniform, plotter, files, trace>>

\* line 79: the next value of the range, or the end of the loop
ExpandNext ==
  /\ pc = "expand_next"
  /\ IF iter = <<>>
       THEN /\ pc' = "extract_expanded"
            /\ UNCHANGED <<i, iter>>
       ELSE /\ i' = Head(iter)
            /\ iter' = Tail(iter)
            /\ pc' = "print_expanding"
  /\ UNCHANGED <<args, mesh, orientation, meshes, shell, expanded_mesh, clus,
                 uniform, plotter, files, trace, error>>

\* line 80
PrintExpanding ==
  /\ pc = "print_expanding"
  /\ trace' = Append(trace, Printed(<<"Expanding", i>>))
  /\ pc' = "compute_normals"
  /\ UNCHANGED <<args, mesh, orientation, meshes, i, iter, shell,
                 expanded_mesh, clus, uniform, plotter, files, error>>

\* line 81
ComputeNormals ==
  /\ pc = "compute_normals"
  /\ shell' = [shell EXCEPT !.normals = "fresh"]
  /\ trace' = Append(trace, Call("compute_normals"))
  /\ pc' = "warp"
  /\ UNCHANGED <<args, mesh, orientation, meshes, i, iter, expanded_mesh,
                 clus, uniform, plotter, files, error>>

\* vtkWarpVector on the point normals: every point moves by scale * normal;
\* the normals array is carried over and no longer fits the moved points
WarpVector(m, scale) ==
  IF m.normals = "none" THEN m
  ELSE [m EXCEPT !.offset = @ + scale, !.normals = "stale"]

\* lines 82-89
Warp ==
  /\ pc = "warp"
  /\ shell' = WarpVector(shell, ScaleFactor)
  /\ trace' = Append(trace, [op |-> "warp", scale |-> ScaleFactor])
  /\ pc' = "expand_next"
  /\ UNCHANGED <<args, mesh, orientation, meshes, i, iter, expanded_mesh,
                 clus, uniform, plotter, files, error>>

(* ------------------------- resampling (91-95) -------------------------- *)

\* line 91
ExtractExpanded ==
  /\ pc = "extract_expanded"
  /\ expanded_mesh' = ExtractSurface(shell)
  /\ trace' = Append(trace, Call("extract_surface"))
  /\ pc' = "clustering"
  /\ UNCHANGED <<args, mesh, orientation, meshes, i, iter, shell, clus,
                 uniform, plotter, files, error>>

\* line 92
NewClustering ==
  /\ pc = "clustering"
  /\ clus' = [lib |-> "pyacvd", mesh |-> expanded_mesh, subdivisions |-> 0,
              clusters |-> 0]
  /\ trace' = Append(trace, Call("Clustering"))
  /\ pc' = "subdivide"
  /\ UNCHANGED <<args, mesh, orientation, meshes, i, iter, shell,
                 expanded_mesh, uniform, plotter, files, error>>

\* line 93
Subdivide ==
  /\ pc = "subdivide"
  /\ clus' = [clus EXCEPT !.subdivisions = @ + Subdivisions]
  /\ trace' = Append(trace, Call("subdivide"))
  /\ pc' = "cluster"
  /\ UNCHANGED <<args, mesh, orientation, meshes, i, iter, shell,
                 expanded_mesh, uniform, plotter, files, error>>

\* the numbers of clusters cluster(n) may end with: about n
ClusterCounts(n) == {Max(1, n - 1), n, n + 1}

\* line 94
Cluster ==
  /\ pc = "cluster"
  /\ \E n \in ClusterCounts(args.points) : clus' = [clus EXCEPT !.clusters = n]
  /\ trace' = Append(trace, Call("cluster"))
  /\ pc' = "create_mesh"
  /\ UNCHANGED <<args, mesh, orientation, meshes, i, iter, shell,
                 expanded_mesh, uniform, plotter, files, error>>

\* line 95: one point per cluster
CreateMesh ==
  /\ pc = "create_mesh"
  /\ shell' = ExtractSurface(PolyData(clus))
  /\ trace' = Append(trace, Call("create_mesh"))
  /\ pc' = "plotter"
  /\ UNCHANGED <<args, mesh, orientation, meshes, i, iter, expanded_mesh,
                 clus, uniform, plotter, files, error>>

(* ---------------------- viewer and output (97-107) --------------------- *)

\* lines 97-104
BuildPlotter ==
  /\ pc = "plotter"
  /\ uniform' = shell
  /\ plotter' = "built"
  /\ trace' = trace \o <<Call("add_mesh"), Call("add_points"),
                         Call("add_mesh"), Call("link_views"),
                         Call("show_bounds")>>
  /\ pc' = "show"
  /\ UNCHANGED <<args, mesh, orientation, meshes, i, iter, shell,
                 expanded_mesh, clus, files, error>>

\* faulty variant of Show: the window is shown without blocking
ShowNonBlocking ==
  /\ pc = "show"
  /\ plotter' = "open"
  /\ trace' = Append(trace, Call("show"))
  /\ pc' = "create_pdb"
  /\ UNCHANGED <<args, mesh, orientation, meshes, i, iter, shell,
                 expanded_mesh, clus, uniform, files, error>>

\* line 105: p.show() opens the window and does not return
Show ==
  /\ pc = "show"
  /\ plotter' = "open"
  /\ trace' = Append(trace, Call("show"))
  /\ pc' = "viewing"
  /\ UNCHANGED <<args, mesh, orientation, meshes, i, iter, shell,
                 expanded_mesh, clus, uniform, files, error>>

\* line 105: the user closes the window and p.show() returns
CloseViewer ==
  /\ pc = "viewing"
  /\ plotter' = "closed"
  /\ pc' = "create_pdb"
  /\ UNCHANGED <<args, mesh, orientation, meshes, i, iter, shell,
                 expanded_mesh, clus, uniform, files, trace, error>>

\* uniform.points: one record per cluster
PointsOf(m) == m.geom.clusters

\* faulty variant of CreatePdb: the points are written over the surface file
CreatePdbOverObj ==
  /\ pc = "create_pdb"
  /\ files' = Written(files, "obj", PointsOf(uniform))
  /\ trace' = Append(trace, Call("create_pdb_from_points"))
  /\ pc' = "done"
  /\ UNCHANGED <<args, mesh, orientation, meshes, i, iter, shell,
                 expanded_mesh, clus, uniform, plotter, error>>

\* line 107
CreatePdb ==
  /\ pc = "create_pdb"
  /\ files' = Written(files, "pdb", PointsOf(uniform))
  /\ trace' = Append(trace, Call("create_pdb_from_points"))
  /\ pc' = "done"
  /\ UNCHANGED <<args, mesh, orientation, meshes, i, iter, shell,
                 expanded_mesh, clus, uniform, plotter, error>>

(* --------------------------- specification ----------------------------- *)

Next ==
  \/ ReadPDB
  \/ ComputeOrientation
  \/ CorrectNormals
  \/ PrintOrientation
  \/ SplitSurfaces
  \/ PrintVolumes
  \/ SelectFirst
  \/ SelectVertices
  \/ Smooth
  \/ RefineRange
  \/ RefineNext
  \/ CoarsenDense
  \/ CoarsenFlat
  \/ SmoothRidges
  \/ PrintIteration
  \/ MarkFaces
  \/ SetRoot
  \/ WriteOBJ
  \/ PvRead
  \/ DecimateShell
  \/ PrintDecimation
  \/ ExpandRange
  \/ ExpandNext
  \/ PrintExpanding
  \/ ComputeNormals
  \/ Warp
  \/ ExtractExpanded
  \/ NewClustering
  \/ Subdivide
  \/ Cluster
  \/ CreateMesh
  \/ BuildPlotter
  \/ Show
  \/ CloseViewer
  \/ CreatePdb

Spec == Init /\ [][Next]_vars

(* ----------------------------- properties ----------------------------- *)

\* the events of the trace with an operation among ops, in order
Events(ops) == SelectSeq(trace, LAMBDA e : e.op \in ops)

Count(op) == Len(Events({op}))

\* n copies of the sequence s, one after the other
RECURSIVE Repeat(_, _)
Repeat(s, n) == IF n <= 0 THEN <<>> ELSE s \o Repeat(s, n - 1)

\* the statements after the expansion loop
AfterExpansion ==
  {"extract_expanded", "clustering", "subdivide", "cluster", "create_mesh",
   "plotter", "show", "viewing", "create_pdb", "done"}

\* the statements of the expansion loop
InExpansion == {"expand_next", "print_expanding", "compute_normals", "warp"}

\* the calls of one expansion iteration
OneExpansion == <<[op |-> "compute_normals"], [op |-> "warp", scale |-> 2]>>

IsInteger(d) == IsFinite(d) /\ d.num % Den = 0

\* C1: for an integer-valued distance d >= 0 the expansion loop has run
\* exactly d times once the statements after it are reached, each iteration
\* one compute_normals followed by one warp, all of them before the
\* clustering starts.
C1_IntegerDistanceIterations ==
  (IsInteger(args.distance) /\ args.distance.num >= 0 /\ pc \in AfterExpansion)
    => /\ Events({"compute_normals", "warp"})
            = Repeat(OneExpansion, args.distance.num \div Den)
       /\ Events({"print"})
            = [k \in 1 .. 7 + Len(meshes) |-> Events({"print"})[k]]
                \o [k \in 1 .. args.distance.num \div Den |->
                      [op |-> "print", text |-> <<"Expanding", k>>]]
       /\ \A k \in DOMAIN trace :
            trace[k].op = "Clustering"
              => \A j \in DOMAIN trace : trace[j].op = "warp" => j < k

C1_Witness ==
  /\ args.distance = Finite(2 * Den)
  /\ pc = "clustering"
  /\ Count("warp") = 2

\* the iterations the loop has made
Iterations == Count("warp")

\* C2 as stated: for a non-integer distance d > 0 the loop makes ceil(d)
\* iterations.
C2_CeilIterations ==
  (IsFinite(args.distance) /\ ~IsInteger(args.distance)
     /\ args.distance.num > 0 /\ pc \in AfterExpansion)
    => Iterations = (args.distance.num + Den - 1) \div Den

\* C2 amended: for a finite non-integer distance d > 0 the loop runs once per
\* integer from 1 up to and including int(d): floor(d) iterations.
C2_FloorIterations ==
  (IsFinite(args.distance) /\ ~IsInteger(args.distance)
     /\ args.distance.num > 0 /\ pc \in AfterExpansion)
    => /\ Iterations = args.distance.num \div Den
       /\ Events({"print"})[Len(Events({"print"}))].text
            = IF Iterations = 0 THEN <<"Decimation">>
              ELSE <<"Expanding", args.distance.num \div Den>>

C2_Witness ==
  /\ args.distance = Finite(Den + 1)
  /\ pc = "extract_expanded"
  /\ Iterations = 1

\* C3: with distance = 0 the loop body is never executed and expanded_mesh is
\* the decimated shell, no point of it moved.
C3_ZeroDistanceNoWarp ==
  (args.distance = Finite(0))
    => /\ pc \notin {"print_expanding", "compute_normals", "warp"}
       /\ Events({"compute_normals", "warp"}) = <<>>
       /\ \A k \in DOMAIN trace :
            trace[k].op = "print" => trace[k].text[1] # "Expanding"
       /\ expanded_mesh # None
            => /\ expanded_mesh = ExtractSurface(ExtractSurface(Decimate(mesh)))
               /\ expanded_mesh.offset = 0
               /\ expanded_mesh.normals = "none"
               /\ expanded_mesh.decimation.reduction = <<97, 100>>

C3_Witness ==
  /\ args.distance = Finite(0)
  /\ pc = "clustering"
  /\ expanded_mesh # None
  /\ expanded_mesh.offset = 0

\* the parts of C4 that do not depend on the sign of the distance: every warp
\* uses the scale 2, and after k iterations every point is displaced by 2 * k
C4_FixedScale ==
  /\ \A k \in DOMAIN trace : trace[k].op = "warp" => trace[k].scale = 2
  /\ pc \in InExpansion \cup {"extract_expanded"}
       => shell.offset = 2 * Iterations
  /\ (pc \in AfterExpansion /\ IsFinite(args.distance)
        /\ args.distance.num >= Den /\ expanded_mesh # None)
       => expanded_mesh.offset * Den # args.distance.num

\* C4 as stated: ... and at loop exit the displacement is 2 * int(distance).
C4_ExitDisplacement ==
  /\ C4_FixedScale
  /\ pc = "extract_expanded" => shell.offset = 2 * PyInt(args.distance)

\* C4 amended: every iteration warps with the scale 2 whatever the distance,
\* after k iterations the displacement is 2 * k, at loop exit it is
\* 2 * max(0, int(distance)), and that differs from the distance for every
\* distance >= 1.
C4_ExitDisplacementClamped ==
  /\ C4_FixedScale
  /\ pc = "extract_expanded"
       => shell.offset = 2 * Max(0, PyInt(args.distance))

C4_Witness ==
  /\ pc = "extract_expanded"
  /\ args.distance = Finite(2 * Den)
  /\ shell.offset = 4

\* C5: the final point file is written only after the viewer window was
\* closed; while the window is open (and so for ever, if it is never closed)
\* the surface file exists and the point file does not.
C5_ViewerBlocksOutput ==
  /\ files["pdb"].writes > 0 => plotter = "closed"
  /\ Count("create_pdb_from_points") > 0 => plotter = "closed"
  /\ plotter = "open"
       => /\ pc = "viewing"
          /\ files["pdb"].writes = 0
          /\ files["obj"].writes = 1
  /\ pc \in {"create_pdb", "done"} => plotter = "closed"

C5_Witness ==
  /\ pc = "viewing"
  /\ plotter = "open"
  /\ files["obj"].writes = 1
  /\ files["pdb"].writes = 0

\* the position of the one event with operation op in the trace, 0 when none
Position(op) ==
  IF Count(op) = 0 THEN 0 ELSE CHOOSE k \in DOMAIN trace : trace[k].op = op

\* C6: each output file is written at most once; the surface file after the
\* sixteen refinement calls and the marking and before it is read back, the
\* point file as the last call of the run; a run that ends normally has
\* written each exactly once.
C6_FilesWrittenOnce ==
  /\ files["obj"].writes = Count("writeOBJ")
  /\ files["pdb"].writes = Count("create_pdb_from_points")
  /\ files["obj"].writes <= 1
  /\ files["pdb"].writes <= 1
  /\ Count("writeOBJ") = 1
       => /\ \A k \in DOMAIN trace :
               trace[k].op \in {"smooth", "coarse_dense", "coarse_flat",
                                "faceIDs", "getRoot"}
                 => k < Position("writeOBJ")
          /\ Len(Events({"smooth", "coarse_dense", "coarse_flat"})) = 16
          /\ Count("faceIDs") = 1
          /\ Count("getRoot") = 1
          /\ Count("read") <= 1
          /\ Count("read") = 1 => Position("writeOBJ") < Position("read")
  /\ Count("read") = 1 => files["obj"].writes = 1
  /\ files["pdb"].writes = 1
       => /\ pc = "done"
          /\ Position("create_pdb_from_points") = Len(trace)
  /\ pc = "done" => files["obj"].writes = 1 /\ files["pdb"].writes = 1

C6_Witness ==
  /\ pc = "done"
  /\ files["obj"].writes = 1
  /\ files["pdb"].writes = 1

\* one refinement round, as the specification describes it
OneRound ==
  <<[op |-> "coarse_dense", rate |-> <<2, 1>>, numiter |-> 3],
    [op |-> "coarse_flat", rate |-> <<1, 10>>, numiter |-> 3],
    [op |-> "smooth", max_iter |-> 3, preserve_ridges |-> TRUE]>>

RoundWithReport(k) ==
  Append(OneRound, [op |-> "print", text |-> <<"Iteration", k>>])

RECURSIVE Rounds(_)
Rounds(n) == IF n = 0 THEN <<>> ELSE Rounds(n - 1) \o RoundWithReport(n)

\* the calls that smooth or coarsen, and the statistics reports, in order
RefinementEvents ==
  SelectSeq(trace,
            LAMBDA e : \/ e.op \in {"smooth", "coarse_dense", "coarse_flat"}
                       \/ e.op = "print" /\ e.text[1] = "Iteration")

\* C7 as stated: between the selection of the component and the marking of
\* the faces the mesh goes through exactly five rounds of (coarse_dense,
\* coarse_flat, smooth) and nothing else that smooths or coarsens.
C7_FiveRoundsOnly ==
  pc = "mark_faces"
    => /\ mesh.ops = Repeat(OneRound, 5)
       /\ RefinementEvents = Rounds(5)

\* C7 amended: the mesh first goes through one smooth of 5 iterations without
\* ridge preservation, then through exactly five rounds of (coarse_dense rate
\* 2 numiter 3, coarse_flat rate 0.1 numiter 3, smooth of 3 iterations with
\* ridge preservation), a statistics report after each round, and through no
\* other smoothing or coarsening.
C7_SmoothThenFiveRounds ==
  pc = "mark_faces"
    => /\ mesh.ops
            = <<[op |-> "smooth", max_iter |-> 5, preserve_ridges |-> FALSE]>>
                \o Repeat(OneRound, 5)
       /\ RefinementEvents
            = <<[op |-> "smooth", max_iter |-> 5, preserve_ridges |-> FALSE]>>
                \o Rounds(5)

C7_Witness ==
  /\ pc = "mark_faces"
  /\ Len(mesh.ops) = 16
  /\ Count("print") = 6 + Len(meshes)

\* C8: the component kept after the split has the largest volume of all the
\* components the split returned.
C8_LargestComponentKept ==
  pc = "select_vertices"
    => \A k \in DOMAIN meshes : mesh.volume >= meshes[k].volume

\* the calls that come after line 41
LaterCalls ==
  {"vertexIDs", "smooth", "coarse_dense", "coarse_flat", "faceIDs", "getRoot",
   "writeOBJ", "read", "decimate", "compute_normals", "warp",
   "extract_surface", "Clustering", "subdivide", "cluster", "create_mesh",
   "add_mesh", "add_points", "link_views", "show_bounds", "show",
   "create_pdb_from_points"}

\* C9: when the split returns no component the run ends at the index access
\* of line 41: nothing after it is executed and no file is written.
C9_EmptySplitStops ==
  (Count("splitSurfaces") = 1 /\ Len(meshes) = 0)
    => /\ pc \in {"print_volumes", "select_first", "crashed"}
       /\ pc = "crashed" => error = "IndexError" /\ ~ENABLED Next
       /\ Events(LaterCalls) = <<>>
       /\ files["obj"].writes = 0
       /\ files["pdb"].writes = 0
       /\ shell = None
       /\ plotter = "none"

C9_Witness ==
  /\ pc = "crashed"
  /\ error = "IndexError"
  /\ Len(meshes) = 0
  /\ Count("splitSurfaces") = 1

\* a distance below 1: a finite one with num < Den, or minus infinity
BelowOne(d) == d.kind = "-inf" \/ (IsFinite(d) /\ d.num < Den)

\* the integer part of n / Den, rounding toward zero
TruncTowardZero(n) ==
  CHOOSE z \in (0 - MaxDist - 1) .. (MaxDist + 1) :
    IF n >= 0 THEN z * Den <= n /\ n < (z + 1) * Den
    ELSE z * Den >= n /\ n > (z - 1) * Den

\* what holds of a run with a distance below 1, as of a run with distance 0:
\* no iteration, no failure but the one of line 41, the decimated shell
\* handed on as it is, and both files written at the end
AsForZero ==
  /\ Iterations = 0
  /\ pc \notin {"print_expanding", "compute_normals", "warp"}
  /\ pc = "crashed" => error = "IndexError"
  /\ expanded_mesh # None
       => expanded_mesh = ExtractSurface(ExtractSurface(Decimate(mesh)))
  /\ pc = "done" => files["obj"].writes = 1 /\ files["pdb"].writes = 1

\* C10 as stated: every distance below 1, negative ones included, gives a
\* run as for distance 0; the iteration count is max(0, trunc(distance)).
C10_BelowOneAsZero ==
  /\ BelowOne(args.distance) => AsForZero
  /\ (IsFinite(args.distance) /\ pc \in AfterExpansion)
       => Iterations = Max(0, TruncTowardZero(args.distance.num))

\* C10 amended: every finite distance below 1, negative ones included, gives
\* a run as for distance 0; for a finite distance the iteration count is
\* max(0, trunc(distance)), truncation toward zero.
C10_FiniteBelowOneAsZero ==
  /\ (IsFinite(args.distance) /\ BelowOne(args.distance)) => AsForZero
  /\ (IsFinite(args.distance) /\ pc \in AfterExpansion)
       => Iterations = Max(0, TruncTowardZero(args.distance.num))

C10_Witness ==
  /\ args.distance = Finite(0 - Den - 1)
  /\ pc = "done"
  /\ Iterations = 0
  /\ files["pdb"].writes = 1

============================================================================
